---- MODULE Spec2Model ----
(***************************************************************************)
(* The SEO analysis pipeline of src/seo.py: website content extraction,    *)
(* AI insight generation, search volume enrichment through the DataForSEO  *)
(* client, keyword scoring, ranking and summary.                           *)
(*                                                                         *)
(* Number representation.  The program computes with Python floats; the    *)
(* model carries them as exact integers in a fixed unit:                   *)
(*   opportunity_score      tenths        (65.0 is 650)                    *)
(*   cpc                    hundredths    (3.5 is 350)                     *)
(*   average_cpc            hundredths                                     *)
(* Python dicts are functions whose DOMAIN is the set of keys present; a   *)
(* key that is absent and a key holding null behave alike under            *)
(* d.get(k) or 0, so only absence is modelled for the numeric fields.    *)
(* Optional values (None or a value) are <<>> or <<value>>.                *)
(***************************************************************************)
EXTENDS Integers, Sequences, FiniteSets, TLC

VARIABLES
    pc,                 \* control point of main() / generate_comprehensive_analysis
    history,            \* the orchestrator stages visited so far, in order
    website_url,        \* self.website_url is set (SAAS_URL present)
    dataforseo_login,   \* self.dataforseo_login is set
    dataforseo_password,\* self.dataforseo_password is set
    dataforseo_client,  \* self.dataforseo_client is a RestClient (FALSE: None)
    ai_response,        \* text returned by the chat completion, <<>> when not in hand
    ai_analysis,        \* value returned by _parse_ai_response, <<>> or <<value>>
    keywords,           \* the keyword list handed to enrichment
    response,           \* outcome of dataforseo_client.post(...), <<>> or <<outcome>>
    search_volume_data, \* return value of fetch_search_volume_data: <<>> is None
    enriched_keywords,  \* local list of _create_enhanced_analysis
    results,            \* return value of main(): <<>> or <<dict>>
    raised,             \* exception that escaped main(), "" when none
    calls,              \* number of calls made to each collaborator
    transport,          \* outcome of the content fetch and of the completion call
    keyword_data,       \* input of the scoring functions (ScoreSpec)
    analytics           \* output of _format_keyword_analytics (ScoreSpec)

pipeline_vars == <<pc, history, website_url, dataforseo_login, dataforseo_password,
                   dataforseo_client, ai_response, ai_analysis, keywords, response,
                   search_volume_data, enriched_keywords, results, raised, calls,
                   transport>>

score_vars == <<keyword_data, analytics>>

vars == <<pipeline_vars, score_vars>>

----------------------------------------------------------------------------
(* Bounds of the model *)

\* longest provider result list (top_recommendations keeps 5, so more than 5)
MaxResults == 6

\* longest AI response, in tokens
MaxTokens == 3

\* largest competition_index drawn for the scoring functions (documented range 0..100)
MaxCompetitionIndex == 110

----------------------------------------------------------------------------
(* Generic helpers *)

Min(a, b) == IF a <= b THEN a ELSE b

\* d.get(k, default)
Get(d, k, default) == IF k \in DOMAIN d THEN d[k] ELSE default

\* d.get(k) or 0 for a numeric field
GetOr0(d, k) == IF k \in DOMAIN d THEN d[k] ELSE 0

\* sequences over S of length at most n
BoundedSeq(S, n) == UNION { [1..k -> S] : k \in 0..n }

\* Python round(n / d) for d > 0: nearest integer, an exact tie to the even neighbour
RoundDiv(n, d) ==
    LET q == n \div d
        r == n % d
    IN  IF 2 * r < d THEN q
        ELSE IF 2 * r > d THEN q + 1
        ELSE IF q % 2 = 0 THEN q ELSE q + 1

RECURSIVE SumOver(_, _)
\* sum(kw[field] for kw in s)
SumOver(s, field) ==
    IF s = <<>> THEN 0 ELSE s[1][field] + SumOver(Tail(s), field)

\* s[:n]
Prefix(s, n) == SubSeq(s, 1, Min(n, Len(s)))

----------------------------------------------------------------------------
(* Scoring: src/seo.py lines 188-301 *)

\* the top tier entered only above 80
difficulty_with_strict_tier(kd) ==
    LET competition_index == GetOr0(kd, "competition_index")
        search_volume == GetOr0(kd, "search_volume")
        base_difficulty ==
            IF competition_index > 80 THEN 85
            ELSE IF competition_index >= 60 THEN 65
            ELSE IF competition_index >= 40 THEN 45
            ELSE 25
        adjusted ==
            IF search_volume > 10000 THEN base_difficulty + 10
            ELSE IF search_volume > 1000 THEN base_difficulty + 5
            ELSE base_difficulty
    IN  Min(100, adjusted)

\* self._calculate_difficulty_score(keyword_data)
calculate_difficulty_score(kd) ==
    LET competition_index == GetOr0(kd, "competition_index")
        search_volume == GetOr0(kd, "search_volume")
        base_difficulty ==
            IF competition_index >= 80 THEN 85
            ELSE IF competition_index >= 60 THEN 65
            ELSE IF competition_index >= 40 THEN 45
            ELSE 25
        adjusted ==
            IF search_volume > 10000 THEN base_difficulty + 10
            ELSE IF search_volume > 1000 THEN base_difficulty + 5
            ELSE base_difficulty
    IN  Min(100, adjusted)

\* competition_score without the halving of line 257: 50 - competition_index
opportunity_with_full_competition(kd) ==
    LET search_volume == GetOr0(kd, "search_volume")
        competition_index == GetOr0(kd, "competition_index")
        volume_score == Min(50 * 200, search_volume)
        competition_score == 50 * 200 - 200 * competition_index
    IN  RoundDiv(volume_score + competition_score, 20)

\* the volume score not capped at 50
opportunity_uncapped(kd) ==
    LET search_volume == GetOr0(kd, "search_volume")
        competition_index == GetOr0(kd, "competition_index")
    IN  RoundDiv(search_volume + 50 * 200 - 100 * competition_index, 20)

\* self._calculate_opportunity_score(keyword_data), in tenths.
\* volume_score and competition_score are carried in units of 1/200, in which
\* search_volume / 200 and competition_index / 2 are integers; round(x, 1) is the
\* division by 20 rounded to the nearest tenth.  When search_volume % 20 = 10 the
\* exact sum lies midway between two tenths and the float result depends on the
\* binary representation: such inputs are not drawn (see SearchVolumes).
calculate_opportunity_score(kd) ==
    LET search_volume == GetOr0(kd, "search_volume")
        competition_index == GetOr0(kd, "competition_index")
        volume_score == Min(50 * 200, search_volume)
        competition_score == 50 * 200 - 100 * competition_index
    IN  RoundDiv(volume_score + competition_score, 20)

\* self._generate_seo_insights(keyword_data); cpc in hundredths
generate_seo_insights(kd) ==
    LET search_volume == GetOr0(kd, "search_volume")
        competition_index == GetOr0(kd, "competition_index")
        cpc == GetOr0(kd, "cpc")
        traffic ==
            IF search_volume > 5000
            THEN "High search volume - excellent traffic potential"
            ELSE IF search_volume > 1000
            THEN "Good search volume - solid traffic opportunity"
            ELSE "Low search volume - niche targeting opportunity"
        competition ==
            IF competition_index < 50
            THEN "Low competition - favorable ranking conditions"
            ELSE IF competition_index < 80
            THEN "Medium competition - moderate SEO effort required"
            ELSE "High competition - intensive SEO strategy needed"
        commercial ==
            IF cpc > 500
            THEN "High commercial value - strong monetization potential"
            ELSE IF cpc > 100
            THEN "Medium commercial value - decent revenue opportunity"
            ELSE "Low commercial value - primarily informational intent"
    IN  <<traffic, competition, commercial>>

\* self._format_keyword_analytics(keyword_data)
format_keyword_analytics(kd) ==
    [ keyword           |-> Get(kd, "keyword", "Unknown"),
      search_volume     |-> GetOr0(kd, "search_volume"),
      competition       |-> Get(kd, "competition", "UNKNOWN"),
      competition_index |-> GetOr0(kd, "competition_index"),
      cpc               |-> GetOr0(kd, "cpc"),
      difficulty_score  |-> calculate_difficulty_score(kd),
      opportunity_score |-> calculate_opportunity_score(kd),
      seo_insights      |-> generate_seo_insights(kd) ]

----------------------------------------------------------------------------
(* Keyword records as the provider returns them *)

\* A provider record: the competition label and each of the three numeric fields
\* is <<>> (key absent) or <<v>>.
KeywordData(kw, competition, sv, ci, cpc) ==
    LET keys == {"keyword"}
                \cup (IF competition = <<>> THEN {} ELSE {"competition"})
                \cup (IF sv = <<>> THEN {} ELSE {"search_volume"})
                \cup (IF ci = <<>> THEN {} ELSE {"competition_index"})
                \cup (IF cpc = <<>> THEN {} ELSE {"cpc"})
    IN  [ k \in keys |->
            CASE k = "keyword" -> kw
              [] k = "competition" -> competition[1]
              [] k = "search_volume" -> sv[1]
              [] k = "competition_index" -> ci[1]
              [] k = "cpc" -> cpc[1] ]

Opt(S) == {<<>>} \cup { <<v>> : v \in S }

\* search volumes around every threshold of the scoring code (1000, 5000, 10000);
\* none has search_volume % 20 = 10
SearchVolumes == {0, 1, 999, 1000, 1001, 4000, 4999, 5000, 5001,
                  9999, 10000, 10001, 12000, 20000}

CompetitionIndexes == 0..MaxCompetitionIndex

\* cpc in hundredths, around the thresholds 1 and 5
Cpcs == {0, 100, 101, 350, 500, 501}

\* {"keyword": "running shoes", "search_volume": 12000, "competition_index": 70,
\*  "cpc": 3.5}
RunningShoes ==
    KeywordData("running shoes", <<>>, <<12000>>, <<70>>, <<350>>)

KeywordDataInputs ==
    { KeywordData("running shoes", competition, sv, ci, cpc) :
        competition \in Opt({"HIGH"}), sv \in Opt(SearchVolumes),
        ci \in Opt(CompetitionIndexes), cpc \in Opt(Cpcs) }

----------------------------------------------------------------------------
(* JSON values, tagged by their Python type after json.loads *)

JsonNull == [type |-> "null"]

JsonString == [type |-> "string"]

JsonArray(items) == [type |-> "array", items |-> items]

JsonObject(fields) == [type |-> "object", fields |-> fields]

\* Python truth value of a parsed JSON value used as a keyword list or result list
Truthy(v) == v.type = "array" /\ v.items # <<>>

----------------------------------------------------------------------------
(* The AI response: src/seo.py lines 372-420 *)

\* keyword lists the AI may propose
KeywordLists == {<<>>, <<"running shoes", "seo tools">>}

\* A dict with the given keys of the required format
InsightObject(keys, kws) ==
    JsonObject([ k \in keys |->
        CASE k = "Name" -> "Acme"
          [] k = "Description" -> "Acme sells running shoes"
          [] k = "Niche" -> "Retail"
          [] k = "Keywords" -> kws
          [] k = "keywords" -> kws ])

RequiredKeys == {"Name", "Description", "Niche", "Keywords"}

\* the JSON documents the completion may carry
AiDocuments ==
    { InsightObject(RequiredKeys, JsonArray(k)) : k \in KeywordLists }
    \cup { InsightObject({"Name", "Description", "Niche", "keywords"}, JsonArray(k)) :
             k \in KeywordLists }
    \cup { InsightObject(RequiredKeys, JsonNull),
           InsightObject({"Name", "Description", "Niche"}, JsonNull),
           JsonArray(<<"running shoes", "seo tools">>),
           JsonString,
           JsonNull }

\* The completion text is a sequence of tokens: "ws" whitespace, "fence_json" the
\* opening code-fence marker with the json tag (7 characters), "fence" the bare
\* three-character fence marker, "prose" any text that is not JSON, and "json" the
\* text of one JSON document, whose value is the doc field.
Tokens == {"ws", "fence_json", "fence", "prose", "json"}

HasJson(text) == \E i \in 1..Len(text) : text[i] = "json"

\* a text without a JSON document carries no value
AiResponses ==
    { r \in [text : BoundedSeq(Tokens, MaxTokens), doc : AiDocuments] :
        HasJson(r.text) \/ r.doc = JsonNull }

RECURSIVE LStrip(_)
LStrip(text) ==
    IF text # <<>> /\ text[1] = "ws" THEN LStrip(Tail(text)) ELSE text

RECURSIVE RStrip(_)
RStrip(text) ==
    IF text # <<>> /\ text[Len(text)] = "ws"
    THEN RStrip(SubSeq(text, 1, Len(text) - 1)) ELSE text

\* str.strip()
Strip(text) == RStrip(LStrip(text))

\* json.loads(text): <<value>>, or <<>> for json.JSONDecodeError.  The text must be
\* exactly one JSON document, whitespace around it allowed.
json_loads(text, doc) == IF Strip(text) = <<"json">> THEN <<doc>> ELSE <<>>

\* the dict returned when parsing fails (lines 415-420)
FallbackRecord ==
    JsonObject([ Name |-> "Unknown",
                 Description |-> "Analysis parsing failed",
                 Niche |-> "Unknown",
                 Keywords |-> JsonArray(<<>>) ])

\* self._parse_ai_response(ai_response)
parse_ai_response(r) ==
    LET clean1 == Strip(r.text)
        clean2 == IF clean1 # <<>> /\ clean1[1] = "fence_json" THEN Tail(clean1) ELSE clean1
        clean3 == IF clean2 # <<>> /\ clean2[Len(clean2)] = "fence"
                  THEN SubSeq(clean2, 1, Len(clean2) - 1) ELSE clean2
        clean4 == Strip(clean3)
        parsed == json_loads(clean4, r.doc)
    IN  IF parsed # <<>> THEN parsed[1] ELSE FallbackRecord

\* ai_analysis.get("Keywords", []) or ai_analysis.get("keywords", []) (line 318),
\* for a dict ai_analysis
keywords_of(a) ==
    LET first == Get(a.fields, "Keywords", JsonArray(<<>>))
    IN  IF Truthy(first) THEN first ELSE Get(a.fields, "keywords", JsonArray(<<>>))

----------------------------------------------------------------------------
(* The DataForSEO reply: src/seo.py lines 144-186 and src/client.py *)

\* the records the provider returns in the pipeline runs: opportunity scores 70.0,
\* 70.0 (a tie between different records) and 100.0; the last one lacks the
\* competition_index and cpc keys
ProviderRecords ==
    { KeywordData("seo tools", <<"LOW">>, <<4000>>, <<0>>, <<420>>),
      KeywordData("seo audit", <<"MEDIUM">>, <<10000>>, <<60>>, <<840>>),
      KeywordData("rank tracker", <<"LOW">>, <<10000>>, <<>>, <<>>) }

StatusOk == 20000

ErrorStatusCodes == {40100, 50000}

\* response.json() of a successful call whose first task carries result
SuccessBody(result) ==
    [ status_code |-> StatusOk, status_message |-> "Ok.",
      tasks |-> << [result |-> result] >> ]

ProviderReplies ==
    \* post() or response.json() raises
    { [kind |-> "raise"] }
    \* success with a result list, possibly empty, or a null result
    \cup { [kind |-> "json", body |-> SuccessBody(JsonArray(l))] :
             l \in BoundedSeq(ProviderRecords, MaxResults) }
    \cup { [kind |-> "json", body |-> SuccessBody(JsonNull)] }
    \* success with no task at all
    \cup { [kind |-> "json",
            body |-> [status_code |-> StatusOk, status_message |-> "Ok.", tasks |-> <<>>]] }
    \* provider-reported failure, with and without a status message
    \cup { [kind |-> "json", body |-> [status_code |-> c, status_message |-> "Error"]] :
             c \in ErrorStatusCodes }
    \cup { [kind |-> "json", body |-> [status_code |-> c]] : c \in ErrorStatusCodes }
    \* a body without status_code
    \cup { [kind |-> "json", body |-> [status_message |-> "Error"]] }

\* the status code not compared with 20000: every JSON body is returned
fetch_ignoring_status(client, reply) ==
    IF ~client THEN <<>>
    ELSE IF reply.kind = "raise" THEN <<>>
    ELSE <<reply.body>>

\* self.fetch_search_volume_data(keywords) given the reply of the post call:
\* <<response_json>>, or <<>> for None.  Every exception inside the try block
\* (the call raising, a missing status_code or status_message key) is caught.
fetch_search_volume_data(client, reply) ==
    IF ~client THEN <<>>
    ELSE IF reply.kind = "raise" THEN <<>>
    ELSE IF "status_code" \notin DOMAIN reply.body THEN <<>>
    ELSE IF reply.body.status_code = StatusOk THEN <<reply.body>>
    ELSE <<>>

\* search_volume_data["tasks"][0]["result"] (lines 435, 441): the value, or the
\* exception the subscripting raises
first_task_result(body) ==
    IF "tasks" \notin DOMAIN body THEN [raised |-> "KeyError"]
    ELSE IF body.tasks = <<>> THEN [raised |-> "IndexError"]
    ELSE IF "result" \notin DOMAIN body.tasks[1] THEN [raised |-> "KeyError"]
    ELSE [raised |-> "", value |-> body.tasks[1].result]

----------------------------------------------------------------------------
(* Ranking and summary: src/seo.py lines 439-466 *)

RECURSIVE insert_before_equal(_, _)
\* an element placed before the elements of equal score: what sorting ascending
\* and reversing the list does to ties
insert_before_equal(sorted, e) ==
    IF sorted = <<>> THEN <<e>>
    ELSE IF sorted[1].opportunity_score > e.opportunity_score
    THEN <<sorted[1]>> \o insert_before_equal(Tail(sorted), e)
    ELSE <<e>> \o sorted

RECURSIVE insert_by_opportunity(_, _)
\* list.sort(key=opportunity_score, reverse=True) is stable: an element is placed
\* after every element already placed whose score is greater or equal
insert_by_opportunity(sorted, e) ==
    IF sorted = <<>> THEN <<e>>
    ELSE IF sorted[1].opportunity_score >= e.opportunity_score
    THEN <<sorted[1]>> \o insert_by_opportunity(Tail(sorted), e)
    ELSE <<e>> \o sorted

RECURSIVE sort_by_opportunity(_)
\* enriched_keywords.sort(key=lambda x: x["opportunity_score"], reverse=True)
sort_by_opportunity(s) ==
    IF s = <<>> THEN <<>>
    ELSE insert_by_opportunity(sort_by_opportunity(SubSeq(s, 1, Len(s) - 1)), s[Len(s)])

\* lines 440-446: format every provider record, then sort
enrich(result_items) ==
    sort_by_opportunity([ i \in 1..Len(result_items) |->
                            format_keyword_analytics(result_items[i]) ])

\* a score of exactly 70 counted too
is_high_opportunity_inclusive(k) == k.opportunity_score >= 700

\* k["opportunity_score"] > 70 (line 463), scores in tenths
is_high_opportunity(k) == k.opportunity_score > 700

TopCount == 5

\* line 453 without its conditional: the division is made on every list, and
\* a division by len(...) = 0 raises ZeroDivisionError
average_cpc_unguarded(enriched) ==
    IF Len(enriched) = 0
    THEN [raised |-> "ZeroDivisionError"]
    ELSE [raised |-> "", value |-> RoundDiv(SumOver(enriched, "cpc"), Len(enriched))]

\* avg_cpc = sum(...) / len(enriched_keywords) if enriched_keywords else 0
\* (line 453), rounded to 2 decimals at line 461; in hundredths
average_cpc(enriched) ==
    IF enriched # <<>>
    THEN [raised |-> "", value |-> RoundDiv(SumOver(enriched, "cpc"), Len(enriched))]
    ELSE [raised |-> "", value |-> 0]

\* lines 452-466; average_cpc in hundredths
summary_metrics(enriched) ==
    [ total_monthly_searches |-> SumOver(enriched, "search_volume"),
      average_cpc |-> average_cpc(enriched).value,
      keywords_analyzed |-> Len(enriched),
      high_opportunity_keywords |->
          Cardinality({ i \in 1..Len(enriched) : is_high_opportunity(enriched[i]) }) ]

\* the dict returned at lines 455-466
enhanced_result(a, enriched) ==
    [ website_analysis |-> a,
      enriched_keywords |-> enriched,
      top_recommendations |-> Prefix(enriched, TopCount),
      summary_metrics |-> summary_metrics(enriched),
      enhanced_analysis |-> TRUE ]

\* the dict returned at lines 329 and 437
basic_result(a, kws) ==
    [ ai_analysis |-> a, keywords |-> kws, enhanced_analysis |-> FALSE ]

\* the dict returned at line 322
minimal_result(a) ==
    [ ai_analysis |-> a, enhanced_keywords |-> <<>>, recommendations |-> <<>> ]

----------------------------------------------------------------------------
(* Construction: src/seo.py lines 31-90 *)

\* one credential taken to be enough
initialize_with_either_credential(login, password, client_ok) ==
    IF login \/ password THEN client_ok ELSE FALSE

\* self._initialize_dataforseo_client(): the client exists when both credentials
\* are set and the RestClient import and construction succeed
initialize_dataforseo_client(login, password, client_ok) ==
    IF login /\ password THEN client_ok ELSE FALSE

NoCalls == [content |-> 0, openai |-> 0, dataforseo |-> 0, report |-> 0]

\* "" while the call has not been made, then "ok" or the exception it raised
NoTransport == [content |-> "", openai |-> ""]

\* the state as main() holds a constructed SEOAnalyzer (OPENAI_KEY is set, or the
\* constructor raises and nothing runs)
Init ==
    /\ pc = "extract_website_content"
    /\ history = <<"START">>
    /\ website_url \in BOOLEAN
    /\ dataforseo_login \in BOOLEAN
    /\ dataforseo_password \in BOOLEAN
    /\ \E client_ok \in BOOLEAN :
         dataforseo_client =
             initialize_dataforseo_client(dataforseo_login, dataforseo_password, client_ok)
    /\ ai_response = <<>>
    /\ ai_analysis = <<>>
    /\ keywords = <<>>
    /\ response = <<>>
    /\ search_volume_data = <<>>
    /\ enriched_keywords = <<>>
    /\ results = <<>>
    /\ raised = ""
    /\ calls = NoCalls
    /\ transport = NoTransport
    /\ keyword_data = RunningShoes
    /\ analytics = <<>>

----------------------------------------------------------------------------
(* The run of main(): src/seo.py lines 527-545 *)

\* an exception leaves main(): logged and re-raised at every level (lines 137-142,
\* 331-333, 387-389, 543-545), no result is returned
Raise(exc) ==
    /\ raised' = exc
    /\ pc' = "failed"
    /\ UNCHANGED <<history, results>>

\* the run enters the next stage
Enter(stage, next_pc) ==
    /\ history' = Append(history, stage)
    /\ pc' = next_pc
    /\ UNCHANGED raised

\* the exception logged and swallowed: the run goes on without content
on_request_exception_swallowed ==
    /\ Enter("CONTENT_EXTRACTED", "generate_ai_insights")
    /\ UNCHANGED results

\* except requests.RequestException: log and raise (lines 137-139)
on_request_exception == Raise("RequestException")

\* analyzer.extract_website_content() (lines 92-142): the outcome of requests.get
\* and raise_for_status is "ok" or "RequestException"
extract_website_content(outcome) ==
    /\ pc = "extract_website_content"
    /\ IF ~website_url
       THEN /\ Raise("ValueError")
            /\ UNCHANGED <<calls, transport>>
       ELSE /\ calls' = [calls EXCEPT !.content = @ + 1]
            /\ transport' = [transport EXCEPT !.content = outcome]
            /\ IF outcome = "RequestException"
               THEN on_request_exception
               ELSE /\ Enter("CONTENT_EXTRACTED", "generate_ai_insights")
                    /\ UNCHANGED results
    /\ UNCHANGED <<website_url, dataforseo_login, dataforseo_password, dataforseo_client,
                   ai_response, ai_analysis, keywords, response, search_volume_data,
                   enriched_keywords, score_vars>>

ExtractWebsiteContent ==
    \E outcome \in {"ok", "RequestException"} : extract_website_content(outcome)

\* self.openai_client.chat.completions.create(...) in _generate_ai_insights
\* (lines 372-389): the call raises, or returns the completion text
generate_ai_insights(outcome) ==
    /\ pc = "generate_ai_insights"
    /\ calls' = [calls EXCEPT !.openai = @ + 1]
    /\ transport' = [transport EXCEPT !.openai = IF outcome.kind = "raise"
                                                  THEN "APIError" ELSE "ok"]
    /\ IF outcome.kind = "raise"
       THEN /\ Raise("APIError")
            /\ UNCHANGED ai_response
       ELSE /\ ai_response' = <<outcome.content>>
            /\ pc' = "parse_ai_response"
            /\ UNCHANGED <<history, raised, results>>
    /\ UNCHANGED <<website_url, dataforseo_login, dataforseo_password, dataforseo_client,
                   ai_analysis, keywords, response, search_volume_data,
                   enriched_keywords, score_vars>>

GenerateAiInsights ==
    \E outcome \in {[kind |-> "raise"]}
                   \cup { [kind |-> "text", content |-> r] : r \in AiResponses } :
        generate_ai_insights(outcome)

\* return self._parse_ai_response(ai_response) (line 385); the local ai_response
\* ends with _generate_ai_insights
ParseAiResponse ==
    /\ pc = "parse_ai_response"
    /\ ai_analysis' = <<parse_ai_response(ai_response[1])>>
    /\ ai_response' = <<>>
    /\ Enter("INSIGHT_GENERATED", "extract_keywords")
    /\ UNCHANGED <<website_url, dataforseo_login, dataforseo_password, dataforseo_client,
                   keywords, response, search_volume_data,
                   enriched_keywords, results, calls, transport, score_vars>>

\* the emptiness test left out: an empty keyword list goes on to enrichment
no_keywords_unchecked(kw) == FALSE

\* if not keywords (line 320)
no_keywords(kw) == ~Truthy(kw)

\* generate_comprehensive_analysis, lines 318-329.  ai_analysis.get raises
\* AttributeError when the parsed value is not a dict.
ExtractKeywords ==
    /\ pc = "extract_keywords"
    /\ LET a == ai_analysis[1] IN
       IF a.type # "object"
       THEN /\ Raise("AttributeError")
            /\ UNCHANGED keywords
       ELSE LET kw == keywords_of(a) IN
            IF no_keywords(kw)
            THEN /\ results' = <<minimal_result(a)>>
                 /\ Enter("DONE", "done")
                 /\ UNCHANGED keywords
            ELSE /\ keywords' = kw.items
                 /\ UNCHANGED results
                 /\ IF dataforseo_client
                    THEN /\ pc' = "create_enhanced_analysis"
                         /\ UNCHANGED <<history, raised>>
                    ELSE Enter("ENRICHMENT_UNAVAILABLE", "return_basic")
    /\ UNCHANGED <<website_url, dataforseo_login, dataforseo_password, dataforseo_client,
                   ai_response, ai_analysis, response, search_volume_data,
                   enriched_keywords, calls, transport, score_vars>>

\* the result compared with None only: an empty result list goes on to the
\* ranking and the summary
no_result_is_none(value) == value.type = "null"

\* not search_volume_data["tasks"][0]["result"] (line 435): None and the empty
\* list are both falsy
no_result(value) == ~Truthy(value)

\* _create_enhanced_analysis, lines 433-446: fetch_search_volume_data with the
\* provider's reply, the availability test, formatting and sorting.  The post call
\* is made only when the client exists (line 157).
create_enhanced_analysis(reply) ==
    /\ pc = "create_enhanced_analysis"
    /\ response' = IF dataforseo_client THEN <<reply>> ELSE <<>>
    /\ calls' = IF dataforseo_client
                THEN [calls EXCEPT !.dataforseo = @ + 1] ELSE calls
    /\ LET svd == fetch_search_volume_data(dataforseo_client, reply) IN
       /\ search_volume_data' = svd
       /\ IF svd = <<>>
          THEN /\ Enter("ENRICHMENT_UNAVAILABLE", "return_basic")
               /\ UNCHANGED <<enriched_keywords, results>>
          ELSE LET res == first_task_result(svd[1]) IN
               IF res.raised # ""
               THEN /\ Raise(res.raised)
                    /\ UNCHANGED enriched_keywords
               ELSE IF no_result(res.value)
               THEN /\ Enter("ENRICHMENT_UNAVAILABLE", "return_basic")
                    /\ UNCHANGED <<enriched_keywords, results>>
               ELSE /\ enriched_keywords' = enrich(res.value.items)
                    /\ Enter("KEYWORDS_ENRICHED", "display_professional_report")
                    /\ UNCHANGED results
    /\ UNCHANGED <<website_url, dataforseo_login, dataforseo_password, dataforseo_client,
                   ai_response, ai_analysis, keywords, transport, score_vars>>

CreateEnhancedAnalysis ==
    \E reply \in ProviderReplies : create_enhanced_analysis(reply)

\* self._display_professional_report(ai_analysis, enriched_keywords) (line 449)
DisplayProfessionalReport ==
    /\ pc = "display_professional_report"
    /\ calls' = [calls EXCEPT !.report = @ + 1]
    /\ Enter("REPORTED", "summary")
    /\ UNCHANGED <<website_url, dataforseo_login, dataforseo_password, dataforseo_client,
                   ai_response, ai_analysis, keywords, response, search_volume_data,
                   enriched_keywords, results, transport, score_vars>>

\* lines 451-466: the summary and the enhanced result
ReturnEnhanced ==
    /\ pc = "summary"
    /\ LET avg_cpc == average_cpc(enriched_keywords) IN
       IF avg_cpc.raised # ""
       THEN Raise(avg_cpc.raised)
       ELSE /\ results' = <<enhanced_result(ai_analysis[1], enriched_keywords)>>
            /\ Enter("DONE", "done")
    /\ UNCHANGED <<website_url, dataforseo_login, dataforseo_password, dataforseo_client,
                   ai_response, ai_analysis, keywords, response, search_volume_data,
                   enriched_keywords, calls, transport, score_vars>>

\* the report printed on the unenhanced path as well
ReturnBasicAfterReport ==
    /\ pc = "return_basic"
    /\ results' = <<basic_result(ai_analysis[1], keywords)>>
    /\ calls' = [calls EXCEPT !.report = @ + 1]
    /\ history' = history \o <<"REPORTED", "DONE">>
    /\ pc' = "done"
    /\ UNCHANGED <<website_url, dataforseo_login, dataforseo_password, dataforseo_client,
                   ai_response, ai_analysis, keywords, response, search_volume_data,
                   enriched_keywords, raised, transport, score_vars>>

\* the unenhanced result returned at line 329 (client not configured) and at
\* line 437 (search volume data unavailable)
ReturnBasic ==
    /\ pc = "return_basic"
    /\ results' = <<basic_result(ai_analysis[1], keywords)>>
    /\ Enter("DONE", "done")
    /\ UNCHANGED <<website_url, dataforseo_login, dataforseo_password, dataforseo_client,
                   ai_response, ai_analysis, keywords, response, search_volume_data,
                   enriched_keywords, calls, transport, score_vars>>

Next ==
    \/ ExtractWebsiteContent
    \/ GenerateAiInsights
    \/ ParseAiResponse
    \/ ExtractKeywords
    \/ CreateEnhancedAnalysis
    \/ DisplayProfessionalReport
    \/ ReturnEnhanced
    \/ ReturnBasic

Spec == Init /\ [][Next]_vars

----------------------------------------------------------------------------
(* The scoring functions applied to one provider record *)

ScoreInit ==
    /\ pc = "format_keyword_analytics"
    /\ history = <<>>
    /\ website_url = FALSE
    /\ dataforseo_login = FALSE
    /\ dataforseo_password = FALSE
    /\ dataforseo_client = FALSE
    /\ ai_response = <<>>
    /\ ai_analysis = <<>>
    /\ keywords = <<>>
    /\ response = <<>>
    /\ search_volume_data = <<>>
    /\ enriched_keywords = <<>>
    /\ results = <<>>
    /\ raised = ""
    /\ calls = NoCalls
    /\ transport = NoTransport
    /\ keyword_data \in KeywordDataInputs
    /\ analytics = <<>>

\* enriched_keyword = self._format_keyword_analytics(keyword_result) (line 442)
FormatKeywordAnalytics ==
    /\ analytics = <<>>
    /\ analytics' = <<format_keyword_analytics(keyword_data)>>
    /\ UNCHANGED <<pipeline_vars, keyword_data>>

ScoreNext == FormatKeywordAnalytics

ScoreSpec == ScoreInit /\ [][ScoreNext]_vars

----------------------------------------------------------------------------
(* The summary step taken alone: lines 451-466 applied to a ranked list of any
   length, the empty list included. Under Spec the test of line 435 keeps the
   empty list away from this step. *)

\* the list left by the loop and the sort of lines 439-446, for any provider
\* result of at most MaxResults records
SummaryInit ==
    /\ pc = "summary"
    /\ history = <<>>
    /\ website_url = FALSE
    /\ dataforseo_login = FALSE
    /\ dataforseo_password = FALSE
    /\ dataforseo_client = FALSE
    /\ ai_response = <<>>
    /\ ai_analysis = <<FallbackRecord>>
    /\ keywords = <<>>
    /\ response = <<>>
    /\ search_volume_data = <<>>
    /\ \E result \in BoundedSeq(ProviderRecords, MaxResults) :
         enriched_keywords = enrich(result)
    /\ results = <<>>
    /\ raised = ""
    /\ calls = NoCalls
    /\ transport = NoTransport
    /\ keyword_data = RunningShoes
    /\ analytics = <<>>

SummaryNext == ReturnEnhanced

SummarySpec == SummaryInit /\ [][SummaryNext]_vars

----------------------------------------------------------------------------
(* Properties of the pipeline *)

\* the dict has a non-empty list under "Keywords" or "keywords"
HasKeywordList(a) ==
    \E k \in {"Keywords", "keywords"} \cap DOMAIN a.fields :
        a.fields[k].type = "array" /\ a.fields[k].items # <<>>

\* the insight stage has returned a dict without keywords
ZeroKeywords ==
    /\ ai_analysis # <<>>
    /\ ai_analysis[1].type = "object"
    /\ ~HasKeywordList(ai_analysis[1])

\* C1: when the insight generator yields no keywords (empty or missing list), the
\* run returns the minimal result, enhanced_keywords = [] and recommendations = [],
\* and at no point of the run is a request made to the provider, whether or not
\* the provider client is configured.
C1_NoKeywordsNoEnrichment ==
    ZeroKeywords =>
        /\ calls.dataforseo = 0
        /\ response = <<>>
        /\ raised = ""
        /\ pc \in {"extract_keywords", "done"}
        /\ pc = "done" =>
             results = << [ ai_analysis |-> ai_analysis[1],
                            enhanced_keywords |-> <<>>,
                            recommendations |-> <<>> ] >>

C1_Witness ==
    /\ ZeroKeywords
    /\ dataforseo_client
    /\ pc = "done"
    /\ results # <<>>
    /\ results[1].enhanced_keywords = <<>>

\* the search-data call returned a status code other than 20000, or raised
ProviderFailed ==
    /\ response # <<>>
    /\ \/ response[1].kind = "raise"
       \/ /\ response[1].kind = "json"
          /\ "status_code" \in DOMAIN response[1].body
          /\ response[1].body.status_code # 20000

\* C2: with a configured client and a non-empty keyword list, a reply with a status
\* code other than 20000, or a call that raises, makes fetch_search_volume_data
\* return None; no exception escapes and the result has enhanced_analysis = false.
C2_ProviderFailureIsUnavailable ==
    (dataforseo_client /\ keywords # <<>> /\ ProviderFailed) =>
        /\ search_volume_data = <<>>
        /\ raised = ""
        /\ pc \in {"return_basic", "done"}
        /\ pc = "done" => (results # <<>> /\ results[1].enhanced_analysis = FALSE)

C2_Witness ==
    /\ ProviderFailed
    /\ response[1].kind = "json"
    /\ response[1].body.status_code = 40100
    /\ pc = "done"
    /\ results[1].enhanced_analysis = FALSE

EnrichedPath ==
    <<"START", "CONTENT_EXTRACTED", "INSIGHT_GENERATED", "KEYWORDS_ENRICHED",
      "REPORTED", "DONE">>

UnavailablePath ==
    <<"START", "CONTENT_EXTRACTED", "INSIGHT_GENERATED", "ENRICHMENT_UNAVAILABLE",
      "DONE">>

ShortCircuitPath ==
    <<"START", "CONTENT_EXTRACTED", "INSIGHT_GENERATED", "DONE">>

IsPrefix(s, t) == Len(s) <= Len(t) /\ s = SubSeq(t, 1, Len(s))

Occurrences(s, x) == Cardinality({ i \in 1..Len(s) : s[i] = x })

\* C3 as stated, on the runs that take one of the two enrichment branches: a
\* completed run went START, CONTENT_EXTRACTED, INSIGHT_GENERATED, one of
\* KEYWORDS_ENRICHED or ENRICHMENT_UNAVAILABLE, REPORTED, DONE, so that the report
\* is emitted on both branches.
C3_Original ==
    (/\ pc = "done"
     /\ \/ Occurrences(history, "KEYWORDS_ENRICHED") > 0
        \/ Occurrences(history, "ENRICHMENT_UNAVAILABLE") > 0) =>
        /\ \/ history = EnrichedPath
           \/ history = <<"START", "CONTENT_EXTRACTED", "INSIGHT_GENERATED",
                          "ENRICHMENT_UNAVAILABLE", "REPORTED", "DONE">>
        /\ calls.report = 1

\* C3 amended: the stages are visited in the linear order without revisiting, and
\* a completed run is one of: enriched, reported, done; enrichment unavailable,
\* done (no report); no keywords, done (no enrichment stage, no report).  The
\* report is emitted exactly when REPORTED is entered, which happens only after
\* KEYWORDS_ENRICHED.
C3_StageOrder ==
    /\ \/ IsPrefix(history, EnrichedPath)
       \/ IsPrefix(history, UnavailablePath)
       \/ IsPrefix(history, ShortCircuitPath)
    /\ pc = "done" <=> history[Len(history)] = "DONE"
    /\ calls.report = Occurrences(history, "REPORTED")
    /\ Occurrences(history, "ENRICHMENT_UNAVAILABLE") = 1 => calls.report = 0

C3_Witness ==
    /\ pc = "done"
    /\ history = UnavailablePath
    /\ response # <<>>
    /\ calls.report = 0

\* the parsed value has the required shape
WellFormedInsight(a) ==
    /\ a.type = "object"
    /\ RequiredKeys \subseteq DOMAIN a.fields
    /\ a.fields["Keywords"].type = "array"

\* C4: a response that is not valid structured data of the required shape is
\* replaced by the fallback record and nothing is raised to the caller: what the
\* insight stage hands on is a well-formed record or the fallback record, and the
\* run does not end in the AttributeError of reading keywords from a non-dict.
C4_FailsSoft ==
    /\ ai_analysis # <<>> =>
         (WellFormedInsight(ai_analysis[1]) \/ ai_analysis[1] = FallbackRecord)
    /\ raised # "AttributeError"

\* C5: when the login or the password is absent the client is None; then no
\* provider request is made, and a run with a non-empty keyword list returns the
\* basic result: enhanced_analysis = false with the AI insight and the raw keywords.
C5_NotConfiguredIsBasic ==
    (~dataforseo_login \/ ~dataforseo_password) =>
        /\ ~dataforseo_client
        /\ calls.dataforseo = 0
        /\ response = <<>>
        /\ (pc = "done" /\ keywords # <<>>) =>
             results = << [ ai_analysis |-> ai_analysis[1],
                            keywords |-> keywords,
                            enhanced_analysis |-> FALSE ] >>

C5_Witness ==
    /\ dataforseo_login
    /\ ~dataforseo_password
    /\ pc = "done"
    /\ keywords # <<>>
    /\ results[1].enhanced_analysis = FALSE

\* C6: a transport error of the content fetch or of the insight call ends the run:
\* the exception leaves main(), no result is returned and no later stage runs (no
\* insight call after a failed fetch; no provider request and no report after a
\* failed insight call).
C6_TransportErrorIsFatal ==
    /\ transport.content = "RequestException" =>
         /\ raised = "RequestException"
         /\ pc = "failed"
         /\ results = <<>>
         /\ history = <<"START">>
         /\ calls.openai = 0 /\ calls.dataforseo = 0 /\ calls.report = 0
    /\ transport.openai = "APIError" =>
         /\ raised = "APIError"
         /\ pc = "failed"
         /\ results = <<>>
         /\ history = <<"START", "CONTENT_EXTRACTED">>
         /\ ai_analysis = <<>>
         /\ calls.dataforseo = 0 /\ calls.report = 0

C6_Witness ==
    /\ transport.content = "ok"
    /\ transport.openai = "APIError"
    /\ pc = "failed"
    /\ dataforseo_client

\* main() has returned an enhanced result
EnhancedResult ==
    /\ pc = "done"
    /\ results # <<>>
    /\ "enhanced_analysis" \in DOMAIN results[1]
    /\ results[1].enhanced_analysis

\* the provider answered with status 20000 and a first task whose result is
\* null or an empty list
EmptySuccess ==
    /\ response # <<>>
    /\ response[1].kind = "json"
    /\ "status_code" \in DOMAIN response[1].body
    /\ response[1].body.status_code = 20000
    /\ response[1].body.tasks # <<>>
    /\ LET result == response[1].body.tasks[1].result
       IN  result.type = "null" \/ (result.type = "array" /\ result.items = <<>>)

\* C13: a success response (status code 20000) whose first task has an empty or
\* null result list is treated as enrichment unavailable: no error, no report,
\* and a result with enhanced_analysis = false and no summary.  Consequently
\* the list is non-empty wherever the report and the summary are made, and in
\* every result with enhanced_analysis = true enriched_keywords is non-empty
\* and keywords_analyzed >= 1, so the average_cpc division is never by zero.
C13_EmptyResultIsUnavailable ==
    /\ EmptySuccess =>
          /\ raised = ""
          /\ pc \in {"return_basic", "done"}
          /\ history[Len(history) - (IF pc = "done" THEN 1 ELSE 0)]
                 = "ENRICHMENT_UNAVAILABLE"
          /\ calls.report = 0
          /\ enriched_keywords = <<>>
          /\ pc = "done" =>
                /\ results # <<>>
                /\ results[1].enhanced_analysis = FALSE
                /\ DOMAIN results[1] = {"ai_analysis", "keywords", "enhanced_analysis"}
    /\ pc \in {"display_professional_report", "summary"} => Len(enriched_keywords) >= 1
    /\ EnhancedResult =>
          /\ results[1].enriched_keywords # <<>>
          /\ results[1].summary_metrics.keywords_analyzed >= 1
          /\ Len(enriched_keywords) >= 1

\* a run that ends unenhanced on a success response with an empty result list
C13_Witness ==
    /\ pc = "done"
    /\ EmptySuccess
    /\ response[1].body.tasks[1].result.type = "array"
    /\ results # <<>>
    /\ results[1].enhanced_analysis = FALSE
    /\ calls.report = 0

\* the result list of the provider's reply, in response order
ProviderResult == response[1].body.tasks[1].result.items

\* C7: in an enhanced result enriched_keywords is the provider's result list in
\* descending order of opportunity_score, records of equal score keeping their
\* order in the provider response, and top_recommendations is its first
\* min(5, n) records.  The place of the k-th provider record is one more than the
\* number of records with a greater score plus the number of earlier records with
\* the same score.
C7_StableRanking ==
    EnhancedResult =>
        LET n == Len(ProviderResult)
            e == results[1].enriched_keywords
            top == results[1].top_recommendations
            f(k) == format_keyword_analytics(ProviderResult[k])
            place(k) ==
                1 + Cardinality({ j \in 1..n :
                                    f(j).opportunity_score > f(k).opportunity_score })
                  + Cardinality({ j \in 1..(k - 1) :
                                    f(j).opportunity_score = f(k).opportunity_score })
        IN  /\ Len(e) = n
            /\ \A k \in 1..n : e[place(k)] = f(k)
            /\ \A i \in 1..(n - 1) : e[i].opportunity_score >= e[i + 1].opportunity_score
            /\ Len(top) = (IF n < 5 THEN n ELSE 5)
            /\ \A i \in 1..Len(top) : top[i] = e[i]

\* more than five records, two different records with the same score, the one
\* with the later place in the sorted list being the later in the response
C7_Witness ==
    /\ EnhancedResult
    /\ Len(ProviderResult) > 5
    /\ Len(results[1].top_recommendations) = 5
    /\ \E i, j \in 1..Len(ProviderResult) :
         /\ i < j
         /\ ProviderResult[i] # ProviderResult[j]
         /\ calculate_opportunity_score(ProviderResult[i])
              = calculate_opportunity_score(ProviderResult[j])
         /\ ProviderResult[i].keyword = "seo audit"
         /\ ProviderResult[j].keyword = "seo tools"

RECURSIVE VolumeOf(_)
\* the search volumes of a list of enriched keywords, added up
VolumeOf(e) ==
    IF e = <<>> THEN 0
    ELSE VolumeOf(SubSeq(e, 1, Len(e) - 1)) + e[Len(e)].search_volume

\* C10: in an enhanced result total_monthly_searches is the sum of search_volume
\* over the enriched keywords, keywords_analyzed is the number of enriched
\* keywords, which is the number of records the provider returned (not the number
\* of keywords requested), and high_opportunity_keywords is the number of enriched
\* keywords with opportunity_score strictly greater than 70.
C10_SummaryMetrics ==
    EnhancedResult =>
        LET e == results[1].enriched_keywords
            m == results[1].summary_metrics
        IN  /\ m.total_monthly_searches = VolumeOf(e)
            /\ m.keywords_analyzed = Len(e)
            /\ m.keywords_analyzed = Len(ProviderResult)
            /\ m.high_opportunity_keywords =
                 Cardinality({ i \in 1..Len(e) : e[i].opportunity_score > 700 })

\* fewer records than keywords requested, one scoring exactly 70.0
C10_Witness ==
    /\ EnhancedResult
    /\ Len(ProviderResult) < Len(keywords)
    /\ results[1].enriched_keywords[1].opportunity_score = 700
    /\ results[1].summary_metrics.high_opportunity_keywords = 0
    /\ results[1].summary_metrics.keywords_analyzed = 1
    /\ results[1].summary_metrics.total_monthly_searches = 10000

----------------------------------------------------------------------------
(* Properties of the scoring functions (ScoreSpec) *)

\* C8 as stated: for {keyword: "running shoes", search_volume: 12000,
\* competition_index: 70, cpc: 3.5} the difficulty score is 75, the opportunity
\* score 65.0 and the insights begin with "Good search volume - solid traffic
\* opportunity".
C8_Original ==
    (analytics # <<>> /\ keyword_data = RunningShoes) =>
        /\ analytics[1].difficulty_score = 75
        /\ analytics[1].opportunity_score = 650
        /\ analytics[1].seo_insights =
             << "Good search volume - solid traffic opportunity",
                "Medium competition - moderate SEO effort required",
                "Medium commercial value - decent revenue opportunity" >>

\* C8 amended: for that record the difficulty score is 75, the opportunity score
\* 65.0, and the insights are "High search volume - excellent traffic potential"
\* (12000 > 5000), then the medium competition and medium commercial value lines.
C8_RunningShoes ==
    (analytics # <<>> /\ keyword_data = RunningShoes) =>
        /\ analytics[1].difficulty_score = 75
        /\ analytics[1].opportunity_score = 650
        /\ analytics[1].seo_insights =
             << "High search volume - excellent traffic potential",
                "Medium competition - moderate SEO effort required",
                "Medium commercial value - decent revenue opportunity" >>

C8_Witness ==
    /\ analytics # <<>>
    /\ keyword_data = RunningShoes
    /\ DOMAIN keyword_data = {"keyword", "search_volume", "competition_index", "cpc"}
    /\ analytics[1].keyword = "running shoes"
    /\ analytics[1].search_volume = 12000
    /\ analytics[1].competition_index = 70
    /\ analytics[1].cpc = 350

\* C12: for every search_volume >= 0 and every competition_index in [0,100]
\* (absent values read as 0), opportunity_score is the tenth nearest to
\* min(50, search_volume / 200) + (50 - competition_index / 2) and lies in
\* [0,100]; it is 100.0 for search_volume 10000 with competition_index 0, and
\* 0.0 for search_volume 0 with competition_index 100.  Scores are in tenths,
\* the exact sum in units of 1/200.
C12_OpportunityInRange ==
    analytics # <<>> =>
        LET ci == IF "competition_index" \in DOMAIN keyword_data
                  THEN keyword_data["competition_index"] ELSE 0
            sv == IF "search_volume" \in DOMAIN keyword_data
                  THEN keyword_data["search_volume"] ELSE 0
            exact == (IF sv < 10000 THEN sv ELSE 10000) + (10000 - 100 * ci)
            o == analytics[1].opportunity_score
        IN  (sv >= 0 /\ ci \in 0..100) =>
                /\ 20 * o - exact \in -10..10
                /\ o \in 0..1000
                /\ (sv = 10000 /\ ci = 0) => o = 1000
                /\ (sv = 0 /\ ci = 100) => o = 0

\* the largest score, at the volume where the cap of 50 starts to bind
C12_Witness ==
    /\ analytics # <<>>
    /\ "search_volume" \in DOMAIN keyword_data
    /\ keyword_data["search_volume"] = 10000
    /\ "competition_index" \in DOMAIN keyword_data
    /\ keyword_data["competition_index"] = 0
    /\ analytics[1].opportunity_score = 1000

\* C9: with absent values read as 0, difficulty_score = min(100, base + adj), base
\* 25 for competition_index in [0,40), 45 in [40,60), 65 in [60,80), 85 from 80 on,
\* adj 10 for search_volume > 10000, 5 for 1000 < search_volume <= 10000, else 0;
\* the score is an integer in [0,100].
C9_DifficultyScore ==
    analytics # <<>> =>
        LET ci == IF "competition_index" \in DOMAIN keyword_data
                  THEN keyword_data["competition_index"] ELSE 0
            sv == IF "search_volume" \in DOMAIN keyword_data
                  THEN keyword_data["search_volume"] ELSE 0
            base == CASE 0 <= ci /\ ci < 40 -> 25
                      [] 40 <= ci /\ ci < 60 -> 45
                      [] 60 <= ci /\ ci < 80 -> 65
                      [] 80 <= ci -> 85
            adj == CASE sv > 10000 -> 10
                     [] 1000 < sv /\ sv <= 10000 -> 5
                     [] sv <= 1000 -> 0
            d == analytics[1].difficulty_score
        IN  /\ d = (IF base + adj > 100 THEN 100 ELSE base + adj)
            /\ d \in 0..100

\* the boundary of the top tier with the largest adjustment
C9_Witness ==
    /\ analytics # <<>>
    /\ "competition_index" \in DOMAIN keyword_data
    /\ keyword_data["competition_index"] = 80
    /\ "search_volume" \in DOMAIN keyword_data
    /\ keyword_data["search_volume"] = 10001
    /\ analytics[1].difficulty_score = 95

----------------------------------------------------------------------------
(* Properties of the summary step, checked under SummarySpec *)

====
